---- MODULE Spec2Model ----
(***************************************************************************)
(* A model of the Prefix file organizer (src/file-organizer.go and the     *)
(* one-shot variant in src/unnamed/part_000).                              *)
(*                                                                         *)
(* Strings are sequences of one-character strings, so that HasPrefix and   *)
(* HasSuffix are computed on the characters.  A path is a pair <<directory,*)
(* name>>: filepath.Join(dir, name) for a name without separators.  The    *)
(* filesystem binds paths to inodes; an inode holds the bytes, the         *)
(* permission bits and whether it is a directory.                          *)
(*                                                                         *)
(* Three specifications share the definitions:                             *)
(*   SpecMatch     matchesPattern applied to bounded inputs                *)
(*   SpecOrganize  the one-shot program: organizeFiles run to completion,  *)
(*                 up to MaxRuns times in a row, on a bounded filesystem   *)
(*   Spec          the watching program (main of src/file-organizer.go)    *)
(***************************************************************************)
EXTENDS Integers, Sequences, FiniteSets, TLC

\* ------------------------------------------------------------------ bounds
MaxLen == 3
MaxRules == 2
MaxFiles == 2
MaxPre == 1
MaxRuns == 2

\* ----------------------------------------------------------------- strings
Alphabet == {"a", "b"}

StringsOfLen(n) == [1..n -> Alphabet]

StringsUpTo(n) == UNION {StringsOfLen(k) : k \in 0..n}

EmptyString == <<>>

\* strings.HasPrefix: len(s) >= len(prefix) && s[:len(prefix)] == prefix
HasPrefix(s, prefix) ==
    /\ Len(s) >= Len(prefix)
    /\ SubSeq(s, 1, Len(prefix)) = prefix

\* strings.HasSuffix: len(s) >= len(suffix) && s[len(s)-len(suffix):] == suffix
HasSuffix(s, suffix) ==
    /\ Len(s) >= Len(suffix)
    /\ SubSeq(s, Len(s) - Len(suffix) + 1, Len(s)) = suffix

\* A plausible slip: "either" instead of "both" when both are configured.
matchesPatternEither(filename, dest) ==
    IF dest.Prefix # EmptyString /\ dest.Suffix # EmptyString
    THEN HasPrefix(filename, dest.Prefix) \/ HasSuffix(filename, dest.Suffix)
    ELSE IF dest.Prefix # EmptyString THEN HasPrefix(filename, dest.Prefix)
    ELSE IF dest.Suffix # EmptyString THEN HasSuffix(filename, dest.Suffix)
    ELSE FALSE

matchesPattern(filename, dest) ==
    IF dest.Prefix # EmptyString /\ dest.Suffix # EmptyString
    THEN HasPrefix(filename, dest.Prefix) /\ HasSuffix(filename, dest.Suffix)
    ELSE IF dest.Prefix # EmptyString THEN HasPrefix(filename, dest.Prefix)
    ELSE IF dest.Suffix # EmptyString THEN HasSuffix(filename, dest.Suffix)
    ELSE FALSE

\* -------------------------------------------------------------- filesystem
DumpDir == "dump"

DestDirs == {"d1", "d2"}

AllDirs == {DumpDir} \cup DestDirs

\* The names a dump-directory entry may have.
FileNames == {<<"a", "a">>, <<"a", "b">>, <<"b", "b">>}

\* filepath.Join(dir, name), for a name holding no separator.
Join(dir, name) == <<dir, name>>

Paths == {Join(d, n) : d \in AllDirs, n \in FileNames}

DestPaths == {Join(d, n) : d \in DestDirs, n \in FileNames}

\* The permission bits of the files put in the dump directory.
Modes == {"0600"}

\* The mode os.Create gives a new file (0666 under the usual umask 022).
CreateMode == "0644"

RECURSIVE SetToSeq(_)
SetToSeq(S) ==
    IF S = {} THEN <<>>
    ELSE LET x == CHOOSE y \in S : TRUE IN <<x>> \o SetToSeq(S \ {x})

PathSeq == SetToSeq(Paths)

\* The inode number of a file present before the program starts.
PathId(path) == CHOOSE i \in 1..Len(PathSeq) : PathSeq[i] = path

CharRank(c) == IF c = "a" THEN 1 ELSE 2

\* Byte-wise order of names: the order in which os.ReadDir returns entries.
RECURSIVE LexLess(_, _)
LexLess(s, t) ==
    IF s = <<>> THEN t # <<>>
    ELSE IF t = <<>> THEN FALSE
    ELSE IF Head(s) = Head(t) THEN LexLess(Tail(s), Tail(t))
    ELSE CharRank(Head(s)) < CharRank(Head(t))

RECURSIVE SortNames(_)
SortNames(S) ==
    IF S = {} THEN <<>>
    ELSE LET m == CHOOSE x \in S : \A y \in S \ {x} : LexLess(x, y)
         IN <<m>> \o SortNames(S \ {m})

\* ------------------------------------------------------------------- rules
Patterns == {[Prefix |-> <<"a">>, Suffix |-> <<>>],
             [Prefix |-> <<>>, Suffix |-> <<"b">>],
             [Prefix |-> <<>>, Suffix |-> <<>>]}

Rules == {[Path |-> d, Prefix |-> pt.Prefix, Suffix |-> pt.Suffix] :
            d \in DestDirs, pt \in Patterns}

RuleLists == UNION {[1..k -> Rules] : k \in 0..MaxRules}

\* A plausible slip: the loop over the rules without its break, so that the
\* last matching rule decides.
RECURSIVE lastMatch(_, _, _)
lastMatch(filename, dests, i) ==
    IF i > Len(dests) THEN 0
    ELSE LET later == lastMatch(filename, dests, i + 1)
         IN IF later # 0 THEN later
            ELSE IF matchesPattern(filename, dests[i]) THEN i ELSE 0

\* The loop over config.Destinations with its break: the index of the first
\* rule, from i on, that matches; 0 when the loop ends without a match.
RECURSIVE firstMatch(_, _, _)
firstMatch(filename, dests, i) ==
    IF i > Len(dests) THEN 0
    ELSE IF matchesPattern(filename, dests[i]) THEN i
    ELSE firstMatch(filename, dests, i + 1)

\* The operations of the operating system that may fail.  Whether one fails
\* is a condition of the environment (a read-only directory, a full disk, a
\* destination on another device): it is fixed the first time the operation
\* is attempted and stays as it is while nothing outside the program changes.
Ops == {"readdir", "mkdir", "rename", "open", "create", "copy", "stat",
        "chmod", "remove"}

VARIABLES
    matchArgs,      \* SpecMatch: the arguments of the call
    matchResult,    \* SpecMatch: "pending", or the value returned
    config,         \* *Config: DumpDirectory and the ordered Destinations
    fs,             \* path -> inode number, 0 when nothing is at the path
    inodes,         \* inode number -> [isDir, content, mode]
    dirs,           \* the directories that exist
    env,            \* operation -> "unknown" | "ok" | "fail"
    pass,           \* organizeFiles calls: id -> locals and position
    runs,           \* SpecOrganize: how many times the program was run
    runLog,         \* SpecOrganize: the filesystem as each run left it
    watch,          \* the fsnotify watcher: subscription and queued items
    mainpc,         \* where main is
    taskpc,         \* where the event goroutine is
    timer,          \* the global timer: 0 for nil, else the timer's number
    armed,          \* timers that will fire: number -> time left
    sinceEvent,     \* time since an event was last consumed, up to Delay + 1
    obs             \* counts of what happened, read by the properties only

watchVars == <<mainpc, taskpc, timer, armed, sinceEvent, obs>>

vars == <<matchArgs, matchResult, config, fs, inodes, dirs, env, pass, runs,
          runLog, watch, mainpc, taskpc, timer, armed, sinceEvent, obs>>

\* ------------------------------------------------------------ pass helpers
IdlePass ==
    [pc |-> "idle", files |-> <<>>, idx |-> 0,
     movedCount |-> 0, skippedCount |-> 0,
     name |-> <<>>, dstDir |-> "", srcH |-> 0, dstH |-> 0, mode |-> "",
     err |-> "", result |-> "",
     \* history, read by the properties only
     atStart |-> <<>>, atCall |-> <<>>, triedRename |-> FALSE,
     triedCopy |-> FALSE, attempts |-> <<>>, perFile |-> <<>>,
     \* history of the timer that started the call: its number, the timer in
     \* the slot, the time since the last event, the events consumed, where
     \* main was and how many other calls were running
     by |-> 0, slot |-> 0, quiet |-> 0, consumedAt |-> 0, mainAt |-> "",
     others |-> 0]

Snapshot == [fs |-> fs, inodes |-> inodes, dirs |-> dirs]

Exists(path) == fs[path] # 0

IsDirAt(path) == Exists(path) /\ inodes[fs[path]].isDir

SrcPath(p) == Join(config.DumpDirectory, pass[p].name)

DstPath(p) == Join(pass[p].dstDir, pass[p].name)

\* os.ReadDir(config.DumpDirectory): the entries, sorted by name.
Listing ==
    LET names == {n \in FileNames : Exists(Join(config.DumpDirectory, n))}
        sorted == SortNames(names)
    IN [i \in 1..Len(sorted) |->
            [name |-> sorted[i],
             isDir |-> IsDirAt(Join(config.DumpDirectory, sorted[i]))]]

\* The outcomes an operation can have in this environment.
Outcome(op) == IF env[op] = "unknown" THEN {"ok", "fail"} ELSE {env[op]}

Decide(op, o) == env' = [env EXCEPT ![op] = o]

NewInodeId ==
    Cardinality(Paths) + 1
        + Cardinality({i \in DOMAIN inodes : i > Cardinality(Paths)})

\* An event on the dump directory reaches the watcher when it is subscribed.
EmitDumpEvent ==
    watch' = IF watch.subscribed
             THEN [watch EXCEPT !.events = watch.events + 1]
             ELSE watch

SetPass(p, rec) == pass' = [pass EXCEPT ![p] = rec]

\* moveFile returns err to organizeFiles, its locals being me.
ReturnFrom(p, me, e) ==
    SetPass(p, [me EXCEPT !.pc = "tally", !.err = e,
                !.attempts = Append(@, [name |-> me.name,
                                        dstDir |-> me.dstDir,
                                        err |-> e,
                                        src |-> me.atCall.fs[
                                            Join(config.DumpDirectory,
                                                 me.name)]])])

Return(p, e) == ReturnFrom(p, pass[p], e)

\* What no step of an organize pass touches.
passFrame == <<matchArgs, matchResult, config, runs, runLog, mainpc, taskpc,
               timer, armed, sinceEvent, obs>>

\* ----------------------------------------------------------- organizeFiles
\* A plausible slip: the error of os.ReadDir is dropped and the call goes on
\* with no entries.
ReadDirStepSwallows(p) ==
    /\ pass[p].pc = "readdir"
    /\ \E o \in Outcome("readdir") :
        /\ Decide("readdir", o)
        /\ SetPass(p, [pass[p] EXCEPT !.pc = "loop", !.idx = 1,
                        !.atStart = Snapshot,
                        !.files = IF o = "ok" /\ config.DumpDirectory \in dirs
                                  THEN Listing ELSE <<>>])
    /\ UNCHANGED <<fs, inodes, dirs, watch>>
    /\ UNCHANGED passFrame

\* A plausible reading: listing the dump directory is itself an event on it.
ReadDirStepTouches(p) ==
    /\ pass[p].pc = "readdir"
    /\ config.DumpDirectory \in dirs
    /\ EmitDumpEvent
    /\ SetPass(p, [pass[p] EXCEPT !.pc = "loop", !.files = Listing,
                    !.idx = 1, !.atStart = Snapshot])
    /\ UNCHANGED <<fs, inodes, dirs, env>>
    /\ UNCHANGED passFrame

\* os.ReadDir at the top of organizeFiles; a failure ends the call.
ReadDirStep(p) ==
    LET failed == [pass[p] EXCEPT !.pc = "done", !.result = "readdir_error"]
    IN
    /\ pass[p].pc = "readdir"
    /\ IF config.DumpDirectory \notin dirs
       THEN /\ SetPass(p, failed)
            /\ UNCHANGED env
       ELSE \E o \in Outcome("readdir") :
            /\ Decide("readdir", o)
            /\ IF o = "ok"
               THEN SetPass(p, [pass[p] EXCEPT !.pc = "loop",
                                !.files = Listing, !.idx = 1,
                                !.atStart = Snapshot])
               ELSE SetPass(p, failed)
    /\ UNCHANGED <<fs, inodes, dirs, watch>>
    /\ UNCHANGED passFrame

\* A plausible slip: the loop without its IsDir test.
LoopStepNoDirTest(p) ==
    LET me == pass[p] IN
    /\ me.pc = "loop"
    /\ IF me.idx > Len(me.files)
       THEN SetPass(p, [me EXCEPT !.pc = "done", !.result = "nil"])
       ELSE LET file == me.files[me.idx]
                r == firstMatch(file.name, config.Destinations, 1)
            IN IF r = 0
               THEN SetPass(p, [me EXCEPT
                        !.skippedCount = @ + 1, !.idx = @ + 1,
                        !.perFile = Append(@, [name |-> file.name,
                            isDir |-> file.isDir, outcome |-> "nomatch",
                            moved |-> 0, skipped |-> 1])])
               ELSE SetPass(p, [me EXCEPT
                        !.pc = "mkdir", !.name = file.name,
                        !.dstDir = config.Destinations[r].Path,
                        !.err = "", !.srcH = 0, !.dstH = 0, !.mode = "",
                        !.atCall = Snapshot,
                        !.triedRename = FALSE, !.triedCopy = FALSE])
    /\ UNCHANGED <<fs, inodes, dirs, env, watch>>
    /\ UNCHANGED passFrame

\* One turn of the loop over the listing, up to the call of moveFile: a
\* directory is passed over, a file no rule matches is counted as skipped,
\* and for a matched file moveFile is entered with the first matching rule.
LoopStep(p) ==
    LET me == pass[p] IN
    /\ me.pc = "loop"
    /\ IF me.idx > Len(me.files)
       THEN SetPass(p, [me EXCEPT !.pc = "done", !.result = "nil"])
       ELSE LET file == me.files[me.idx]
                r == firstMatch(file.name, config.Destinations, 1)
            IN IF file.isDir
               THEN SetPass(p, [me EXCEPT
                        !.idx = @ + 1,
                        !.perFile = Append(@, [name |-> file.name,
                            isDir |-> TRUE, outcome |-> "directory",
                            moved |-> 0, skipped |-> 0])])
               ELSE IF r = 0
               THEN SetPass(p, [me EXCEPT
                        !.skippedCount = @ + 1, !.idx = @ + 1,
                        !.perFile = Append(@, [name |-> file.name,
                            isDir |-> FALSE, outcome |-> "nomatch",
                            moved |-> 0, skipped |-> 1])])
               ELSE SetPass(p, [me EXCEPT
                        !.pc = "mkdir", !.name = file.name,
                        !.dstDir = config.Destinations[r].Path,
                        !.err = "", !.srcH = 0, !.dstH = 0, !.mode = "",
                        !.atCall = Snapshot,
                        !.triedRename = FALSE, !.triedCopy = FALSE])
    /\ UNCHANGED <<fs, inodes, dirs, env, watch>>
    /\ UNCHANGED passFrame

\* A plausible slip: a failed relocation ends the pass.
TallyStepAbort(p) ==
    LET me == pass[p] IN
    /\ me.pc = "tally"
    /\ IF me.err # ""
       THEN SetPass(p, [me EXCEPT !.pc = "done", !.result = "move_error",
                        !.skippedCount = @ + 1])
       ELSE SetPass(p, [me EXCEPT !.pc = "loop", !.idx = @ + 1,
                        !.movedCount = @ + 1,
                        !.perFile = Append(@, [name |-> me.name,
                            isDir |-> FALSE, outcome |-> "moved",
                            moved |-> 1, skipped |-> 0])])
    /\ UNCHANGED <<fs, inodes, dirs, env, watch>>
    /\ UNCHANGED passFrame

\* A plausible slip: after a failed relocation the loop over the rules goes
\* on, and the next matching rule is tried.
TallyStepNextRule(p) ==
    LET me == pass[p]
        D == config.Destinations
        r == firstMatch(me.name, D, 1)
        next == firstMatch(me.name, D, r + 1)
    IN
    /\ me.pc = "tally"
    /\ IF me.err # "" /\ me.dstDir = D[r].Path /\ next # 0
       THEN SetPass(p, [me EXCEPT !.pc = "mkdir", !.dstDir = D[next].Path,
                        !.err = "", !.skippedCount = @ + 1])
       ELSE SetPass(p, [me EXCEPT !.pc = "loop", !.idx = @ + 1,
                        !.movedCount = @ + (IF me.err = "" THEN 1 ELSE 0),
                        !.skippedCount = @ + (IF me.err = "" THEN 0 ELSE 2),
                        !.perFile = Append(@, [name |-> me.name,
                            isDir |-> FALSE,
                            outcome |-> IF me.err = "" THEN "moved"
                                        ELSE "failed",
                            moved |-> IF me.err = "" THEN 1 ELSE 0,
                            skipped |-> IF me.err = "" THEN 0 ELSE 2])])
    /\ UNCHANGED <<fs, inodes, dirs, env, watch>>
    /\ UNCHANGED passFrame

\* moveFile has returned: the error branch counts the file as skipped, the
\* other branch as moved and sets moved; after the break, "if !moved" counts
\* it as skipped (once more, when it was the move that failed).
TallyStep(p) ==
    LET me == pass[p]
        failed == me.err # ""
        moved == ~failed
        dMoved == IF failed THEN 0 ELSE 1
        dSkipped == (IF failed THEN 1 ELSE 0) + (IF ~moved THEN 1 ELSE 0)
    IN
    /\ me.pc = "tally"
    /\ SetPass(p, [me EXCEPT !.pc = "loop", !.idx = @ + 1,
                   !.movedCount = @ + dMoved,
                   !.skippedCount = @ + dSkipped,
                   !.perFile = Append(@, [name |-> me.name,
                       isDir |-> FALSE,
                       outcome |-> IF failed THEN "failed" ELSE "moved",
                       moved |-> dMoved, skipped |-> dSkipped])])
    /\ UNCHANGED <<fs, inodes, dirs, env, watch>>
    /\ UNCHANGED passFrame

\* ---------------------------------------------------------------- moveFile
\* A plausible slip: the destination directory is not created.
MkdirAllStepMissing(p) ==
    LET me == pass[p] IN
    /\ me.pc = "mkdir"
    /\ SetPass(p, [me EXCEPT !.pc = "stat"])
    /\ UNCHANGED <<fs, inodes, dirs, env, watch>>
    /\ UNCHANGED passFrame

\* os.MkdirAll(destDir): nothing to do for a directory that exists.
MkdirAllStep(p) ==
    LET me == pass[p] IN
    /\ me.pc = "mkdir"
    /\ IF me.dstDir \in dirs
       THEN /\ SetPass(p, [me EXCEPT !.pc = "stat"])
            /\ UNCHANGED <<dirs, env>>
       ELSE \E o \in Outcome("mkdir") :
            /\ Decide("mkdir", o)
            /\ IF o = "ok"
               THEN /\ dirs' = dirs \cup {me.dstDir}
                    /\ SetPass(p, [me EXCEPT !.pc = "stat"])
               ELSE /\ UNCHANGED dirs
                    /\ Return(p, "mkdir")
    /\ UNCHANGED <<fs, inodes, watch>>
    /\ UNCHANGED passFrame

\* A plausible slip: no test for a file at the destination.
StatDestStepBlind(p) ==
    LET me == pass[p] IN
    /\ me.pc = "stat"
    /\ SetPass(p, [me EXCEPT !.pc = "rename"])
    /\ UNCHANGED <<fs, inodes, dirs, env, watch>>
    /\ UNCHANGED passFrame

\* os.Stat(destPath): err == nil means something is there.
StatDestStep(p) ==
    LET me == pass[p] IN
    /\ me.pc = "stat"
    /\ IF Exists(DstPath(p))
       THEN Return(p, "exists")
       ELSE SetPass(p, [me EXCEPT !.pc = "rename"])
    /\ UNCHANGED <<fs, inodes, dirs, env, watch>>
    /\ UNCHANGED passFrame

\* os.Rename(sourcePath, destPath): it needs the source and the destination
\* directory, cannot put a file over a directory, and replaces a file that
\* is at the destination.
RenameStep(p) ==
    LET me == pass[p]
        src == SrcPath(p)
        dst == DstPath(p)
        possible == /\ Exists(src)
                    /\ me.dstDir \in dirs
                    /\ ~IsDirAt(dst)
        falls == [me EXCEPT !.pc = "open", !.triedRename = TRUE]
    IN
    /\ me.pc = "rename"
    /\ IF ~possible
       THEN /\ SetPass(p, falls)
            /\ UNCHANGED <<fs, env, watch>>
       ELSE \E o \in Outcome("rename") :
            /\ Decide("rename", o)
            /\ IF o = "ok"
               THEN /\ fs' = [fs EXCEPT ![dst] = fs[src], ![src] = 0]
                    /\ EmitDumpEvent
                    /\ ReturnFrom(p, [me EXCEPT !.triedRename = TRUE], "")
               ELSE /\ SetPass(p, falls)
                    /\ UNCHANGED <<fs, watch>>
    /\ UNCHANGED <<inodes, dirs>>
    /\ UNCHANGED passFrame

\* ---------------------------------------------------------------- copyFile
\* os.Open(sourcePath): the handle stays on the inode it was opened on.
OpenStep(p) ==
    LET me == [pass[p] EXCEPT !.triedCopy = TRUE] IN
    /\ pass[p].pc = "open"
    /\ IF ~Exists(SrcPath(p))
       THEN /\ ReturnFrom(p, me, "open")
            /\ UNCHANGED env
       ELSE \E o \in Outcome("open") :
            /\ Decide("open", o)
            /\ IF o = "ok"
               THEN SetPass(p, [me EXCEPT !.pc = "create",
                                !.srcH = fs[SrcPath(p)]])
               ELSE ReturnFrom(p, me, "open")
    /\ UNCHANGED <<fs, inodes, dirs, watch>>
    /\ UNCHANGED passFrame

\* os.Create(destPath): O_CREATE|O_TRUNC, so a file that is at the
\* destination is emptied and a missing one is made with the default mode.
CreateStep(p) ==
    LET me == pass[p]
        dst == DstPath(p)
        possible == me.dstDir \in dirs /\ ~IsDirAt(dst)
    IN
    /\ me.pc = "create"
    /\ IF ~possible
       THEN /\ Return(p, "create")
            /\ UNCHANGED <<fs, inodes, env>>
       ELSE \E o \in Outcome("create") :
            /\ Decide("create", o)
            /\ IF o = "fail"
               THEN /\ Return(p, "create")
                    /\ UNCHANGED <<fs, inodes>>
               ELSE IF Exists(dst)
               THEN /\ inodes' = [inodes EXCEPT ![fs[dst]].content = <<>>]
                    /\ SetPass(p, [me EXCEPT !.pc = "copy", !.dstH = fs[dst]])
                    /\ UNCHANGED fs
               ELSE /\ inodes' = inodes @@
                            (NewInodeId :> [isDir |-> FALSE, content |-> <<>>,
                                            mode |-> CreateMode])
                    /\ fs' = [fs EXCEPT ![dst] = NewInodeId]
                    /\ SetPass(p, [me EXCEPT !.pc = "copy",
                                   !.dstH = NewInodeId])
    /\ UNCHANGED <<dirs, watch>>
    /\ UNCHANGED passFrame

\* A plausible reading: a copy that fails removes what it wrote.
CopyStepCleansUp(p) ==
    LET me == pass[p]
        data == inodes[me.srcH].content
    IN
    /\ me.pc = "copy"
    /\ \E o \in Outcome("copy") :
        /\ Decide("copy", o)
        /\ IF o = "ok"
           THEN /\ inodes' = [inodes EXCEPT ![me.dstH].content = data]
                /\ SetPass(p, [me EXCEPT !.pc = "srcstat"])
                /\ UNCHANGED fs
           ELSE /\ fs' = [fs EXCEPT ![DstPath(p)] = 0]
                /\ UNCHANGED inodes
                /\ Return(p, "copy")
    /\ UNCHANGED <<dirs, watch>>
    /\ UNCHANGED passFrame

\* io.Copy(destFile, sourceFile): all the bytes the source handle gives, or,
\* when it fails, those written before the failure.
CopyStep(p) ==
    LET me == pass[p]
        data == inodes[me.srcH].content
    IN
    /\ me.pc = "copy"
    /\ \E o \in Outcome("copy") :
        /\ Decide("copy", o)
        /\ IF o = "ok"
           THEN /\ inodes' = [inodes EXCEPT ![me.dstH].content = data]
                /\ SetPass(p, [me EXCEPT !.pc = "srcstat"])
           ELSE \E k \in 0..Len(data) :
                /\ inodes' = [inodes EXCEPT
                                ![me.dstH].content = SubSeq(data, 1, k)]
                /\ Return(p, "copy")
    /\ UNCHANGED <<fs, dirs, watch>>
    /\ UNCHANGED passFrame

\* os.Stat(sourcePath) for the permission bits.
StatSrcStep(p) ==
    LET me == pass[p] IN
    /\ me.pc = "srcstat"
    /\ IF ~Exists(SrcPath(p))
       THEN /\ Return(p, "stat")
            /\ UNCHANGED env
       ELSE \E o \in Outcome("stat") :
            /\ Decide("stat", o)
            /\ IF o = "ok"
               THEN SetPass(p, [me EXCEPT !.pc = "chmod",
                                !.mode = inodes[fs[SrcPath(p)]].mode])
               ELSE Return(p, "stat")
    /\ UNCHANGED <<fs, inodes, dirs, watch>>
    /\ UNCHANGED passFrame

\* A plausible slip: the permission bits are not propagated.
ChmodStepSkipped(p) ==
    LET me == pass[p] IN
    /\ me.pc = "chmod"
    /\ SetPass(p, [me EXCEPT !.pc = "remove"])
    /\ UNCHANGED <<fs, inodes, dirs, env, watch>>
    /\ UNCHANGED passFrame

\* os.Chmod(destPath, sourceInfo.Mode()): its error is copyFile's result.
ChmodStep(p) ==
    LET me == pass[p]
        dst == DstPath(p)
    IN
    /\ me.pc = "chmod"
    /\ IF ~Exists(dst)
       THEN /\ Return(p, "chmod")
            /\ UNCHANGED <<inodes, env>>
       ELSE \E o \in Outcome("chmod") :
            /\ Decide("chmod", o)
            /\ IF o = "ok"
               THEN /\ inodes' = [inodes EXCEPT ![fs[dst]].mode = me.mode]
                    /\ SetPass(p, [me EXCEPT !.pc = "remove"])
               ELSE /\ UNCHANGED inodes
                    /\ Return(p, "chmod")
    /\ UNCHANGED <<fs, dirs, watch>>
    /\ UNCHANGED passFrame

\* os.Remove(sourcePath), after copyFile returned nil.
RemoveStep(p) ==
    LET me == pass[p]
        src == SrcPath(p)
    IN
    /\ me.pc = "remove"
    /\ IF ~Exists(src)
       THEN /\ Return(p, "remove")
            /\ UNCHANGED <<fs, env, watch>>
       ELSE \E o \in Outcome("remove") :
            /\ Decide("remove", o)
            /\ IF o = "ok"
               THEN /\ fs' = [fs EXCEPT ![src] = 0]
                    /\ EmitDumpEvent
                    /\ Return(p, "")
               ELSE /\ UNCHANGED <<fs, watch>>
                    /\ Return(p, "remove")
    /\ UNCHANGED <<inodes, dirs>>
    /\ UNCHANGED passFrame

\* One step of the organizeFiles call p.
PassStep(p) ==
    \/ ReadDirStep(p)
    \/ LoopStep(p)
    \/ TallyStep(p)
    \/ MkdirAllStep(p)
    \/ StatDestStep(p)
    \/ RenameStep(p)
    \/ OpenStep(p)
    \/ CreateStep(p)
    \/ CopyStep(p)
    \/ StatSrcStep(p)
    \/ ChmodStep(p)
    \/ RemoveStep(p)

\* ------------------------------------------------------------ SpecOrganize
\* The one-shot program: main checks the dump directory and calls
\* organizeFiles once.  It is run up to MaxRuns times in a row, nothing else
\* touching the filesystem.
NoWatch == [subscribed |-> FALSE, addFailed |-> FALSE, closed |-> FALSE,
            events |-> 0, errors |-> 0]

NoObs == [consumed |-> 0, started |-> 0, gaps |-> {}, external |-> 0,
          errors |-> 0]

\* The variables of the watching program, for a program that does not watch.
NotWatching ==
    /\ watch = NoWatch
    /\ mainpc = "oneshot"
    /\ taskpc = "none"
    /\ timer = 0
    /\ armed = <<>>
    /\ sinceEvent = 0
    /\ obs = NoObs

EntryKinds == {"dir"} \cup Modes

\* The inode of an entry present at the start: a dump entry holds its own
\* name as bytes, a file already at a destination holds other bytes.
InitialInode(path, kind) ==
    [isDir |-> kind = "dir",
     content |-> IF kind = "dir" THEN <<>>
                 ELSE IF path[1] = DumpDir THEN path[2] ELSE <<"z">>,
     mode |-> IF kind = "dir" THEN "0755" ELSE kind]

InitFilesystem ==
    \E S \in SUBSET FileNames, P \in SUBSET DestPaths, D \in SUBSET DestDirs :
        /\ Cardinality(S) <= MaxFiles
        /\ Cardinality(P) <= MaxPre
        /\ \A q \in P : q[1] \in D /\ q[2] \in S
        /\ \E kind \in [S -> EntryKinds] :
            LET present == {Join(DumpDir, n) : n \in S} \cup P
                kindOf(q) == IF q \in P THEN CreateMode ELSE kind[q[2]]
            IN /\ fs = [q \in Paths |-> IF q \in present THEN PathId(q) ELSE 0]
               /\ inodes = [i \in {PathId(q) : q \in present} |->
                               InitialInode(PathSeq[i], kindOf(PathSeq[i]))]
               /\ dirs = D \cup {DumpDir}

InitOrganize ==
    /\ matchArgs = <<>>
    /\ matchResult = "unused"
    /\ config \in [DumpDirectory : {DumpDir}, Destinations : RuleLists]
    /\ InitFilesystem
    /\ env = [op \in Ops |-> "unknown"]
    /\ pass = <<IdlePass>>
    /\ runs = 0
    /\ runLog = <<>>
    /\ NotWatching

\* main of the one-shot program up to the call of organizeFiles.
OneShotMain ==
    /\ pass[1].pc \in {"idle", "exited"}
    /\ runs < MaxRuns
    /\ runs' = runs + 1
    /\ pass' = [pass EXCEPT ![1] = [IdlePass EXCEPT !.pc = "readdir"]]
    /\ UNCHANGED <<matchArgs, matchResult, config, fs, inodes, dirs, env,
                   runLog, watch>>
    /\ UNCHANGED watchVars

\* organizeFiles has returned and the program ends.
OneShotExit ==
    /\ pass[1].pc = "done"
    /\ pass' = [pass EXCEPT ![1].pc = "exited"]
    /\ runLog' = Append(runLog, [before |-> pass[1].atStart,
                                 after |-> Snapshot,
                                 movedCount |-> pass[1].movedCount,
                                 skippedCount |-> pass[1].skippedCount,
                                 result |-> pass[1].result,
                                 attempts |-> pass[1].attempts])
    /\ UNCHANGED <<matchArgs, matchResult, config, fs, inodes, dirs, env,
                   runs, watch>>
    /\ UNCHANGED watchVars

NextOrganize ==
    \/ OneShotMain
    \/ PassStep(1)
    \/ OneShotExit

SpecOrganize == InitOrganize /\ [][NextOrganize]_vars

\* --------------------------------------------------------------- SpecMatch
InitMatch ==
    /\ matchArgs \in [filename : StringsUpTo(MaxLen),
                      dest : [Path : {"d1"},
                              Prefix : StringsUpTo(MaxLen),
                              Suffix : StringsUpTo(MaxLen)]]
    /\ matchResult = "pending"
    /\ config = [DumpDirectory |-> DumpDir, Destinations |-> <<>>]
    /\ fs = [q \in Paths |-> 0]
    /\ inodes = <<>>
    /\ dirs = {}
    /\ env = [op \in Ops |-> "unknown"]
    /\ pass = <<>>
    /\ runs = 0
    /\ runLog = <<>>
    /\ NotWatching

CallMatches ==
    /\ matchResult = "pending"
    /\ matchResult' = IF matchesPattern(matchArgs.filename, matchArgs.dest)
                      THEN "true" ELSE "false"
    /\ UNCHANGED <<matchArgs, config, fs, inodes, dirs, env, pass, runs,
                   runLog, watch>>
    /\ UNCHANGED watchVars

NextMatch == CallMatches

SpecMatch == InitMatch /\ [][NextMatch]_vars

\* -------------------------------------------------------------------- Spec
\* The watching program.  Time is counted in seconds; a timer holds the time
\* left until it fires.  The event goroutine, blocked in its select, takes
\* an item as soon as there is one, and a timer fires when its time is up:
\* time does not pass over either.
Delay == 5

MaxEvents == 2

MaxErrors == 1

MaxPasses == 2

MaxStart == 1

\* The process runs: log.Fatalf and the return of main end every goroutine.
Alive == mainpc \notin {"fatal", "exited"}

\* A plausible slip: a Stop that leaves the timer running.
StoppedNot(t) == armed

\* timer.Stop(): the timer will not fire; nothing for one that has fired.
Stopped(t) == [i \in DOMAIN armed \ {t} |-> armed[i]]

GapClass(gap) == IF gap < Delay THEN "less"
                 ELSE IF gap = Delay THEN "equal" ELSE "more"

mainFrame == <<matchArgs, matchResult, config, fs, inodes, dirs, env, pass,
               runs, runLog>>

\* loadConfig, and log.Fatalf when it fails.
MainLoadConfig ==
    /\ mainpc = "start"
    /\ mainpc' \in {"statDump", "fatal"}
    /\ UNCHANGED <<watch, taskpc, timer, armed, sinceEvent, obs>>
    /\ UNCHANGED mainFrame

\* os.Stat(config.DumpDirectory): fatal when the directory is missing.
MainStatDump ==
    /\ mainpc = "statDump"
    /\ mainpc' = IF config.DumpDirectory \in dirs THEN "newWatcher" ELSE "fatal"
    /\ UNCHANGED <<watch, taskpc, timer, armed, sinceEvent, obs>>
    /\ UNCHANGED mainFrame

\* fsnotify.NewWatcher(), and log.Fatalf when it fails.
MainNewWatcher ==
    /\ mainpc = "newWatcher"
    /\ mainpc' \in {"go", "fatal"}
    /\ UNCHANGED <<watch, taskpc, timer, armed, sinceEvent, obs>>
    /\ UNCHANGED mainFrame

\* A plausible reading, the one of the program's earlier version: main calls
\* organizeFiles once at startup, before it watches.
MainGoOrganizesFirst ==
    /\ mainpc = "go"
    /\ mainpc' = "add"
    /\ taskpc' = "select"
    /\ pass' = Append(pass, [IdlePass EXCEPT !.pc = "readdir",
                             !.mainAt = "waiting"])
    /\ obs' = [obs EXCEPT !.started = @ + 1]
    /\ UNCHANGED <<watch, timer, armed, sinceEvent>>
    /\ UNCHANGED <<matchArgs, matchResult, config, fs, inodes, dirs, env,
                   runs, runLog>>

\* go func() { for { select { ... } } }()
MainGo ==
    /\ mainpc = "go"
    /\ mainpc' = "add"
    /\ taskpc' = "select"
    /\ UNCHANGED <<watch, timer, armed, sinceEvent, obs>>
    /\ UNCHANGED mainFrame

\* watcher.Add(config.DumpDirectory): its error is logged, and main goes on
\* to signal.Notify and to wait for the signal.
MainWatcherAdd ==
    /\ mainpc = "add"
    /\ \E ok \in BOOLEAN :
        watch' = [watch EXCEPT !.subscribed = ok, !.addFailed = ~ok]
    /\ mainpc' = "waiting"
    /\ UNCHANGED <<taskpc, timer, armed, sinceEvent, obs>>
    /\ UNCHANGED mainFrame

\* sig := <-sigChan
MainSignal ==
    /\ mainpc = "waiting"
    /\ mainpc' = "stopTimer"
    /\ UNCHANGED <<watch, taskpc, timer, armed, sinceEvent, obs>>
    /\ UNCHANGED mainFrame

\* if timer != nil { timer.Stop() }
\* main reads the package variable timer while the event goroutine writes it,
\* with nothing ordering the two: main sees the slot's current value or any
\* value it held before (0 is nil), and stops the timer it saw.
MainStopTimer ==
    /\ mainpc = "stopTimer"
    /\ \E seen \in 0..timer :
          armed' = IF seen # 0 THEN Stopped(seen) ELSE armed
    /\ mainpc' = "closing"
    /\ UNCHANGED <<watch, taskpc, timer, sinceEvent, obs>>
    /\ UNCHANGED mainFrame

\* The deferred watcher.Close() as main returns: the channels are closed.
MainClose ==
    /\ mainpc = "closing"
    /\ watch' = [watch EXCEPT !.closed = TRUE, !.subscribed = FALSE,
                 !.events = 0, !.errors = 0]
    /\ mainpc' = "closed"
    /\ UNCHANGED <<taskpc, timer, armed, sinceEvent, obs>>
    /\ UNCHANGED mainFrame

\* main has returned: the process ends.
MainExit ==
    /\ mainpc = "closed"
    /\ mainpc' = "exited"
    /\ UNCHANGED <<watch, taskpc, timer, armed, sinceEvent, obs>>
    /\ UNCHANGED mainFrame

\* A plausible slip: the timer in the slot is not stopped before the new one
\* is made.
TaskEventNoStop ==
    LET id == obs.consumed + 1 IN
    /\ Alive
    /\ taskpc = "select"
    /\ ~watch.closed
    /\ watch.events > 0
    /\ watch' = [watch EXCEPT !.events = @ - 1]
    /\ armed' = armed @@ (id :> Delay)
    /\ timer' = id
    /\ sinceEvent' = 0
    /\ obs' = [obs EXCEPT !.consumed = @ + 1,
               !.gaps = IF obs.consumed = 0 THEN @
                        ELSE @ \cup {GapClass(sinceEvent)}]
    /\ UNCHANGED <<mainpc, taskpc>>
    /\ UNCHANGED mainFrame

\* A plausible slip: an event that finds a timer running keeps that timer's
\* deadline instead of starting a fresh delay.
TaskEventKeepsDeadline ==
    LET id == obs.consumed + 1
        left == IF timer # 0 THEN Stopped(timer) ELSE armed
        wait == IF timer \in DOMAIN armed THEN armed[timer] ELSE Delay
    IN
    /\ Alive
    /\ taskpc = "select"
    /\ ~watch.closed
    /\ watch.events > 0
    /\ watch' = [watch EXCEPT !.events = @ - 1]
    /\ armed' = left @@ (id :> wait)
    /\ timer' = id
    /\ sinceEvent' = 0
    /\ obs' = [obs EXCEPT !.consumed = @ + 1,
               !.gaps = IF obs.consumed = 0 THEN @
                        ELSE @ \cup {GapClass(sinceEvent)}]
    /\ UNCHANGED <<mainpc, taskpc>>
    /\ UNCHANGED mainFrame

\* A plausible slip: an event that finds a timer running stops it and arms
\* no other.
TaskEventStopsOnly ==
    LET id == obs.consumed + 1
        running == timer \in DOMAIN armed
    IN
    /\ Alive
    /\ taskpc = "select"
    /\ ~watch.closed
    /\ watch.events > 0
    /\ watch' = [watch EXCEPT !.events = @ - 1]
    /\ armed' = IF running THEN Stopped(timer) ELSE armed @@ (id :> Delay)
    /\ timer' = IF running THEN timer ELSE id
    /\ sinceEvent' = 0
    /\ obs' = [obs EXCEPT !.consumed = @ + 1,
               !.gaps = IF obs.consumed = 0 THEN @
                        ELSE @ \cup {GapClass(sinceEvent)}]
    /\ UNCHANGED <<mainpc, taskpc>>
    /\ UNCHANGED mainFrame

\* case event, ok := <-watcher.Events with ok: the timer in the slot is
\* stopped and time.AfterFunc puts a new one in it.
TaskEvent ==
    LET id == obs.consumed + 1
        left == IF timer # 0 THEN Stopped(timer) ELSE armed
    IN
    /\ Alive
    /\ taskpc = "select"
    /\ ~watch.closed
    /\ watch.events > 0
    /\ watch' = [watch EXCEPT !.events = @ - 1]
    /\ armed' = left @@ (id :> Delay)
    /\ timer' = id
    /\ sinceEvent' = 0
    /\ obs' = [obs EXCEPT !.consumed = @ + 1,
               !.gaps = IF obs.consumed = 0 THEN @
                        ELSE @ \cup {GapClass(sinceEvent)}]
    /\ UNCHANGED <<mainpc, taskpc>>
    /\ UNCHANGED mainFrame

\* A plausible slip: an error from the watcher cancels the pending organize.
TaskErrorStopsTimer ==
    /\ Alive
    /\ taskpc = "select"
    /\ ~watch.closed
    /\ watch.errors > 0
    /\ watch' = [watch EXCEPT !.errors = @ - 1]
    /\ obs' = [obs EXCEPT !.errors = @ + 1]
    /\ armed' = IF timer # 0 THEN Stopped(timer) ELSE armed
    /\ UNCHANGED <<mainpc, taskpc, timer, sinceEvent>>
    /\ UNCHANGED mainFrame

\* case err, ok := <-watcher.Errors with ok: the error is logged.
TaskError ==
    /\ Alive
    /\ taskpc = "select"
    /\ ~watch.closed
    /\ watch.errors > 0
    /\ watch' = [watch EXCEPT !.errors = @ - 1]
    /\ obs' = [obs EXCEPT !.errors = @ + 1]
    /\ UNCHANGED <<mainpc, taskpc, timer, armed, sinceEvent>>
    /\ UNCHANGED mainFrame

\* A plausible slip: no test of ok, so that the zero event received from the
\* closed channel is handled like any other.
TaskReturnHandlesZeroEvent ==
    LET id == obs.consumed + 1
        left == IF timer # 0 THEN Stopped(timer) ELSE armed
    IN
    /\ Alive
    /\ taskpc = "select"
    /\ watch.closed
    /\ armed' = left @@ (id :> Delay)
    /\ timer' = id
    /\ obs' = [obs EXCEPT !.consumed = @ + 1]
    /\ UNCHANGED <<watch, mainpc, taskpc, sinceEvent>>
    /\ UNCHANGED mainFrame

\* Either channel is closed (!ok): the goroutine returns.
TaskReturn ==
    /\ Alive
    /\ taskpc = "select"
    /\ watch.closed
    /\ taskpc' = "returned"
    /\ UNCHANGED <<watch, mainpc, timer, armed, sinceEvent, obs>>
    /\ UNCHANGED mainFrame

\* The organizeFiles calls that have not returned.
InFlight == {p \in DOMAIN pass : pass[p].pc # "done"}

\* A plausible reading: the callback waits for the pass in flight, as under a
\* mutex around organizeFiles.
TimerFireExclusive(t) ==
    /\ Alive
    /\ t \in DOMAIN armed
    /\ armed[t] = 0
    /\ obs.started < MaxPasses
    /\ InFlight = {}
    /\ armed' = Stopped(t)
    /\ pass' = Append(pass, [IdlePass EXCEPT !.pc = "readdir",
                    !.by = t, !.slot = timer, !.quiet = sinceEvent,
                    !.consumedAt = obs.consumed, !.mainAt = mainpc,
                    !.others = 0])
    /\ obs' = [obs EXCEPT !.started = @ + 1]
    /\ UNCHANGED <<watch, mainpc, taskpc, timer, sinceEvent>>
    /\ UNCHANGED <<matchArgs, matchResult, config, fs, inodes, dirs, env,
                   runs, runLog>>

\* The time of timer t is up: its function runs in a goroutine of its own,
\* logs and calls organizeFiles(config).  The number of calls is capped.
StartPass(t, cap) ==
    /\ Alive
    /\ t \in DOMAIN armed
    /\ armed[t] = 0
    /\ obs.started < cap
    /\ armed' = Stopped(t)
    /\ pass' = Append(pass, [IdlePass EXCEPT !.pc = "readdir",
                    !.by = t, !.slot = timer, !.quiet = sinceEvent,
                    !.consumedAt = obs.consumed, !.mainAt = mainpc,
                    !.others = Cardinality(InFlight)])
    /\ obs' = [obs EXCEPT !.started = @ + 1]
    /\ UNCHANGED <<watch, mainpc, taskpc, timer, sinceEvent>>
    /\ UNCHANGED <<matchArgs, matchResult, config, fs, inodes, dirs, env,
                   runs, runLog>>

TimerFire(t) == StartPass(t, MaxPasses)

\* The event goroutine has something to take in its select.
TaskReady ==
    /\ taskpc = "select"
    /\ watch.closed \/ watch.events > 0 \/ watch.errors > 0

\* One second passes.  main only lets time pass while it waits for the
\* signal: its other steps take no time to speak of.
Tick ==
    /\ mainpc = "waiting"
    /\ ~TaskReady
    /\ \A t \in DOMAIN armed : armed[t] > 0
    /\ armed' = [t \in DOMAIN armed |-> armed[t] - 1]
    /\ sinceEvent' = IF obs.consumed = 0 THEN 0
                     ELSE IF sinceEvent > Delay THEN sinceEvent
                     ELSE sinceEvent + 1
    /\ UNCHANGED <<watch, mainpc, taskpc, timer, obs>>
    /\ UNCHANGED mainFrame

\* Other processes act on the dump directory while main waits or shuts down.
Watched == mainpc \in {"waiting", "stopTimer", "closing"}

\* The names of the files other processes put in the dump directory.
WatchNames == {<<"a", "b">>}

\* What the operations do in the environment of the watching program: all
\* succeed, or the destinations are on another device and os.Rename fails,
\* or the dump directory cannot be read.
WatchEnvs ==
    {[op \in Ops |-> "ok"],
     [op \in Ops |-> IF op = "rename" THEN "fail" ELSE "ok"],
     [op \in Ops |-> IF op = "readdir" THEN "fail" ELSE "ok"]}

\* Another process puts a file in the dump directory.
Drop(n, cap) ==
    /\ Watched
    /\ obs.external < cap
    /\ config.DumpDirectory \in dirs
    /\ ~Exists(Join(config.DumpDirectory, n))
    /\ fs' = [fs EXCEPT ![Join(config.DumpDirectory, n)] = NewInodeId]
    /\ inodes' = inodes @@ (NewInodeId :> [isDir |-> FALSE, content |-> n,
                                           mode |-> "0600"])
    /\ EmitDumpEvent
    /\ obs' = [obs EXCEPT !.external = @ + 1]
    /\ UNCHANGED <<matchArgs, matchResult, config, dirs, env, pass, runs,
                   runLog, mainpc, taskpc, timer, armed, sinceEvent>>

\* Another process touches the dump directory: one more event, nothing
\* new in the directory.  The number of doings of other processes is capped.
Touch(cap) ==
    /\ Watched
    /\ obs.external < cap
    /\ watch.subscribed
    /\ EmitDumpEvent
    /\ obs' = [obs EXCEPT !.external = @ + 1]
    /\ UNCHANGED <<mainpc, taskpc, timer, armed, sinceEvent>>
    /\ UNCHANGED mainFrame

\* Another process puts a file of its own at the destination a pass is about
\* to move a file to, after the pass has looked for one there.
ExternalPlace(p) ==
    /\ Watched
    /\ Alive
    /\ obs.external < MaxEvents
    /\ pass[p].pc \in {"rename", "create"}
    /\ pass[p].dstDir \in dirs
    /\ ~Exists(DstPath(p))
    /\ fs' = [fs EXCEPT ![DstPath(p)] = NewInodeId]
    /\ inodes' = inodes @@ (NewInodeId :> [isDir |-> FALSE,
                                           content |-> <<"z">>,
                                           mode |-> CreateMode])
    /\ obs' = [obs EXCEPT !.external = @ + 1]
    /\ UNCHANGED <<matchArgs, matchResult, config, dirs, env, pass, runs,
                   runLog, watch, mainpc, taskpc, timer, armed, sinceEvent>>

ExternalTouch == Touch(MaxEvents)

ExternalDrop(n) == Drop(n, MaxEvents)

\* The watcher reports an error of its own.
ExternalError ==
    /\ Watched
    /\ watch.errors + obs.errors < MaxErrors
    /\ watch.subscribed
    /\ watch' = [watch EXCEPT !.errors = @ + 1]
    /\ UNCHANGED <<mainpc, taskpc, timer, armed, sinceEvent, obs>>
    /\ UNCHANGED mainFrame

\* The configuration of the watching program: two rules that overlap on
\* the name "ab".
WatchRules ==
    <<[Path |-> "d1", Prefix |-> <<"a">>, Suffix |-> <<>>],
      [Path |-> "d2", Prefix |-> <<>>, Suffix |-> <<"b">>]>>

Init ==
    /\ matchArgs = <<>>
    /\ matchResult = "unused"
    /\ config = [DumpDirectory |-> DumpDir, Destinations |-> WatchRules]
    /\ \E S \in SUBSET WatchNames, dumpThere \in BOOLEAN :
        /\ Cardinality(S) <= MaxStart
        /\ ~dumpThere => S = {}
        /\ LET present == {Join(DumpDir, n) : n \in S} IN
            /\ fs = [q \in Paths |-> IF q \in present THEN PathId(q) ELSE 0]
            /\ inodes = [i \in {PathId(q) : q \in present} |->
                            InitialInode(PathSeq[i], "0600")]
        /\ dirs = IF dumpThere THEN {DumpDir} ELSE {}
    /\ env \in WatchEnvs
    /\ pass = <<>>
    /\ runs = 0
    /\ runLog = <<>>
    /\ watch = NoWatch
    /\ mainpc = "start"
    /\ taskpc = "none"
    /\ timer = 0
    /\ armed = <<>>
    /\ sinceEvent = 0
    /\ obs = NoObs

Next ==
    \/ MainLoadConfig
    \/ MainStatDump
    \/ MainNewWatcher
    \/ MainGo
    \/ MainWatcherAdd
    \/ MainSignal
    \/ MainStopTimer
    \/ MainClose
    \/ MainExit
    \/ TaskEvent
    \/ TaskError
    \/ TaskReturn
    \/ \E t \in DOMAIN armed : TimerFire(t)
    \/ Tick
    \/ \E p \in DOMAIN pass : Alive /\ PassStep(p)
    \/ \E n \in WatchNames : ExternalDrop(n)
    \/ \E p \in DOMAIN pass : ExternalPlace(p)
    \/ ExternalTouch
    \/ ExternalError

Spec == Init /\ [][Next]_vars

\* ---------------------------------------------------------------- claims
PrefixOf(x, f) == \E n \in 0..Len(f) : x = [i \in 1..n |-> f[i]]

SuffixOf(x, f) == \E n \in 0..Len(f) : x = [i \in 1..n |-> f[Len(f) - n + i]]

\* Every non-empty one of the rule's prefix and suffix holds of f, and one
\* of them is non-empty.
ConfiguredConditionsHold(f, r) ==
    /\ r.Prefix # <<>> \/ r.Suffix # <<>>
    /\ r.Prefix # <<>> => PrefixOf(r.Prefix, f)
    /\ r.Suffix # <<>> => SuffixOf(r.Suffix, f)

\* C1: matchesPattern(f, r) is true exactly when every non-empty one of
\* r.Prefix and r.Suffix holds of f (as a prefix, as a suffix); a rule whose
\* prefix and suffix are both empty matches no filename.
C1_MatchesIffConditions ==
    matchResult \in {"true", "false"} =>
        ((matchResult = "true")
            <=> ConfiguredConditionsHold(matchArgs.filename, matchArgs.dest))

\* A match with both set, the prefix and the suffix overlapping in the name.
C1_Witness ==
    /\ matchResult = "true"
    /\ matchArgs.dest.Prefix # <<>>
    /\ matchArgs.dest.Suffix # <<>>
    /\ Len(matchArgs.dest.Prefix) + Len(matchArgs.dest.Suffix)
            > Len(matchArgs.filename)

\* The first rule in list order that matches the name; 0 when none does.
FirstRuleFor(name) ==
    LET D == config.Destinations
        M == {i \in 1..Len(D) : matchesPattern(name, D[i])}
    IN IF M = {} THEN 0 ELSE CHOOSE i \in M : \A j \in M : i <= j

\* The file that was put in the dump directory under this name is at path.
HoldsDumpFile(path, name) ==
    /\ Exists(path)
    /\ ~inodes[fs[path]].isDir
    /\ inodes[fs[path]].content = name

\* C2: every call of moveFile is for the first rule in list order that
\* matches the file, and a relocated file is at that rule's path joined with
\* its name and in no later matching rule's directory.
C2_FirstMatchWins ==
    \A p \in DOMAIN pass :
        \A k \in 1..Len(pass[p].attempts) :
            LET a == pass[p].attempts[k]
                D == config.Destinations
                r == FirstRuleFor(a.name)
            IN /\ r # 0
               /\ a.dstDir = D[r].Path
               /\ a.err = "" =>
                    /\ HoldsDumpFile(Join(D[r].Path, a.name), a.name)
                    /\ \A j \in (r + 1)..Len(D) :
                          (matchesPattern(a.name, D[j])
                                /\ D[j].Path # D[r].Path)
                            => ~HoldsDumpFile(Join(D[j].Path, a.name), a.name)

\* A file relocated to d2 by the first rule while the second rule, for d1,
\* matches it too.
C2_Witness ==
    /\ Len(config.Destinations) = 2
    /\ config.Destinations[1].Path = "d2"
    /\ config.Destinations[2].Path = "d1"
    /\ \E k \in 1..Len(pass[1].attempts) :
        LET a == pass[1].attempts[k] IN
            /\ a.err = ""
            /\ matchesPattern(a.name, config.Destinations[1])
            /\ matchesPattern(a.name, config.Destinations[2])

\* C3: a call of moveFile made while something is at the destination returns
\* the already-exists error, has tried neither the rename nor the copy, and
\* leaves the filesystem as it was at the call.
C3_NoOverwriteOfExisting ==
    \A p \in DOMAIN pass :
        (/\ pass[p].pc = "tally"
         /\ pass[p].atCall.fs[DstPath(p)] # 0)
        => /\ pass[p].err = "exists"
           /\ ~pass[p].triedRename
           /\ ~pass[p].triedCopy
           /\ Snapshot = pass[p].atCall

C3_Witness ==
    /\ pass[1].pc = "tally"
    /\ pass[1].err = "exists"
    /\ pass[1].atCall.fs[DstPath(1)] # 0
    /\ Exists(SrcPath(1))

InFallback(p) ==
    /\ pass[p].pc \in {"create", "copy", "srcstat", "chmod", "remove", "tally"}
    /\ pass[p].triedCopy

\* The source file as it was when moveFile was called.
SourceAtCall(p) == pass[p].atCall.inodes[pass[p].atCall.fs[SrcPath(p)]]

\* C4: a call of moveFile that fell back to copy and remove and returned nil
\* leaves at the destination a file with the source's bytes and permission
\* bits and nothing at the source; and during the fallback the source is
\* gone only when the destination holds all its bytes.
C4_FallbackCorrect ==
    \A p \in DOMAIN pass :
        /\ (pass[p].pc = "tally" /\ pass[p].triedCopy /\ pass[p].err = "")
            => /\ Exists(DstPath(p))
               /\ inodes[fs[DstPath(p)]].content = SourceAtCall(p).content
               /\ inodes[fs[DstPath(p)]].mode = SourceAtCall(p).mode
               /\ ~inodes[fs[DstPath(p)]].isDir
               /\ ~Exists(SrcPath(p))
        /\ (InFallback(p) /\ ~Exists(SrcPath(p)))
            => /\ Exists(DstPath(p))
               /\ inodes[fs[DstPath(p)]].content = SourceAtCall(p).content

C4_Witness ==
    /\ pass[1].pc = "tally"
    /\ pass[1].triedRename
    /\ pass[1].triedCopy
    /\ pass[1].err = ""
    /\ SourceAtCall(1).mode # CreateMode
    /\ ~Exists(SrcPath(1))

\* Every event has been consumed and every timer has fired, main waiting.
Quiescent ==
    /\ mainpc = "waiting"
    /\ watch.events = 0
    /\ DOMAIN armed = {}

\* C5: events each consumed less than the debounce delay after the one
\* before have led to exactly one organize pass once all is quiet, and
\* events each more than the delay after the one before to one pass each.
C5_DebounceCollapsing ==
    /\ (Quiescent /\ obs.consumed >= 1 /\ obs.gaps \subseteq {"less"})
        => obs.started = 1
    /\ (Quiescent /\ obs.gaps \subseteq {"more"})
        => obs.started = obs.consumed

\* Several events in one burst, and the one pass they led to.
C5_Witness ==
    /\ Quiescent
    /\ obs.consumed >= 2
    /\ obs.gaps = {"less"}
    /\ obs.started = 1

NonDirEntries(p) == {i \in 1..Len(pass[p].files) : ~pass[p].files[i].isDir}

\* C6: at the end of a pass every non-directory entry of the listing has
\* been counted exactly once, as moved or as skipped, so that the two
\* counters add up to the number of those entries.
C6_EachFileCountedOnce ==
    \A p \in DOMAIN pass :
        (pass[p].pc = "done" /\ pass[p].result = "nil")
        => /\ pass[p].movedCount + pass[p].skippedCount
                = Cardinality(NonDirEntries(p))
           /\ \A i \in NonDirEntries(p) :
                pass[p].perFile[i].moved + pass[p].perFile[i].skipped = 1

\* C7: a pass always runs to the end of its listing and returns nil,
\* whatever moveFile returned on the way: every entry was examined, in
\* order, and for every file a rule matches moveFile was called once.
C7_ErrorsDoNotAbort ==
    \A p \in DOMAIN pass :
        (pass[p].pc = "done" /\ pass[p].result # "readdir_error")
        => /\ pass[p].result = "nil"
           /\ Len(pass[p].perFile) = Len(pass[p].files)
           /\ \A i \in 1..Len(pass[p].files) :
                /\ pass[p].perFile[i].name = pass[p].files[i].name
                /\ (~pass[p].files[i].isDir
                        /\ FirstRuleFor(pass[p].files[i].name) # 0)
                    => Cardinality({k \in 1..Len(pass[p].attempts) :
                            pass[p].attempts[k].name = pass[p].files[i].name})
                        = 1

\* The first call of moveFile failed and the one for the next file succeeded.
C7_Witness ==
    /\ pass[1].pc = "done"
    /\ Len(pass[1].attempts) = 2
    /\ pass[1].attempts[1].err # ""
    /\ pass[1].attempts[2].err = ""

\* C8: a pass leaves every subdirectory of the dump directory and every
\* file no rule matches where and as it was, and puts nothing under their
\* names in a destination; a subdirectory is counted neither as moved nor
\* as skipped, an unmatched file once as skipped.
C8_FrameOfPass ==
    \A p \in DOMAIN pass :
        pass[p].pc \in {"loop", "done"} =>
            \A i \in 1..Len(pass[p].files) :
                LET f == pass[p].files[i]
                    before == pass[p].atStart
                    at == Join(config.DumpDirectory, f.name)
                IN (f.isDir \/ FirstRuleFor(f.name) = 0) =>
                    /\ fs[at] = before.fs[at]
                    /\ inodes[fs[at]] = before.inodes[before.fs[at]]
                    /\ \A d \in DestDirs :
                            fs[Join(d, f.name)] = before.fs[Join(d, f.name)]
                    /\ i <= Len(pass[p].perFile) =>
                        /\ pass[p].perFile[i].moved = 0
                        /\ pass[p].perFile[i].skipped
                                = IF f.isDir THEN 0 ELSE 1

\* A finished pass over a subdirectory a rule matches and an unmatched file.
C8_Witness ==
    /\ pass[1].pc = "done"
    /\ \E i, j \in 1..Len(pass[1].files) :
        /\ pass[1].files[i].isDir
        /\ FirstRuleFor(pass[1].files[i].name) # 0
        /\ ~pass[1].files[j].isDir
        /\ FirstRuleFor(pass[1].files[j].name) = 0

\* C9: the destination directory exists by the time the move is tried, and
\* a second run right after a first one moves no file and leaves the dump
\* directory and the destinations as the first run left them.
C9_SecondPassIdempotent ==
    /\ \A p \in DOMAIN pass :
        pass[p].pc = "rename" => pass[p].dstDir \in dirs
    /\ Len(runLog) >= 2 =>
        /\ runLog[2].movedCount = 0
        /\ runLog[2].after = runLog[1].after

\* Two runs, the first of which made a destination directory and moved a
\* file into it.
C9_Witness ==
    /\ Len(runLog) = 2
    /\ runLog[1].movedCount > 0
    /\ \E d \in DestDirs :
        /\ d \notin runLog[1].before.dirs
        /\ \E n \in FileNames : runLog[2].after.fs[Join(d, n)] # 0

\* C10: when watcher.Add fails the process aborts and is never started and
\* waiting for events or for the signal.
C10_SubscribeFailureIsFatal ==
    watch.addFailed => mainpc # "waiting"

\* C11: an organize pass that was started before the termination signal has
\* returned from organizeFiles by the time the process has ended.
C11_InFlightPassCompletes ==
    mainpc = "exited" =>
        \A p \in DOMAIN pass :
            pass[p].mainAt = "waiting" => pass[p].pc = "done"

\* C12: once main has run its timer.Stop() at shutdown, no organize pass
\* starts and no timer is outstanding: no event consumed after that point
\* has re-armed the slot.
C12_NoPassAfterTeardown ==
    /\ \A p \in DOMAIN pass : pass[p].mainAt \notin {"closing", "closed"}
    /\ mainpc \in {"closing", "closed"} => DOMAIN armed = {}

\* C13: when moveFile returns because os.Chmod failed after the bytes were
\* copied, the file is relocated all the same: the destination holds the
\* full content of the source and the source is gone from the dump directory.
C13_ChmodFailureStillRelocates ==
    \A p \in DOMAIN pass :
        (pass[p].pc = "tally" /\ pass[p].err = "chmod")
        => /\ Exists(DstPath(p))
           /\ inodes[fs[DstPath(p)]].content = SourceAtCall(p).content
           /\ ~Exists(SrcPath(p))

\* The organizeFiles calls that returned the error of os.ReadDir.
FailedListing == {p \in DOMAIN pass : pass[p].result = "readdir_error"}

\* C14: when the dump directory cannot be listed organizeFiles returns an
\* error without a listing, a call of moveFile or an outcome for any file,
\* and nothing arrives in a destination; in the watching program main goes
\* on waiting and the event goroutine stays in its select, ready for the
\* next event.
C14_ListingFailureIsWholeCall ==
    /\ \A p \in DOMAIN pass :
        (env["readdir"] = "fail" /\ pass[p].pc # "readdir")
        => /\ pass[p].pc = "done"
           /\ pass[p].result = "readdir_error"
    /\ \A p \in FailedListing :
        /\ pass[p].files = <<>>
        /\ pass[p].attempts = <<>>
        /\ pass[p].perFile = <<>>
        /\ pass[p].movedCount = 0
        /\ pass[p].skippedCount = 0
    /\ env["readdir"] = "fail" => \A q \in DestPaths : ~Exists(q)
    /\ FailedListing # {} =>
        /\ mainpc # "fatal"
        /\ (mainpc = "waiting" => taskpc = "select")

\* A pass failed to list the dump directory, and an event consumed after it
\* started armed the timer that started the next pass.
C14_Witness ==
    /\ Len(pass) >= 2
    /\ pass[1].result = "readdir_error"
    /\ pass[2].result = "readdir_error"
    /\ pass[2].consumedAt > pass[1].consumedAt
    /\ Exists(Join(DumpDir, <<"a", "b">>))

\* The rules after the first matching one that match the name too and lead
\* to another directory.
LaterRulesFor(name) ==
    LET D == config.Destinations
        r == FirstRuleFor(name)
    IN {j \in (r + 1)..Len(D) :
            matchesPattern(name, D[j]) /\ D[j].Path # D[r].Path}

\* C15: in one pass moveFile is called at most once for a file, with the
\* directory of the first rule that matches it, and when that call failed
\* nothing has been put under the file's name in the directory of a later
\* matching rule.
C15_NoFallbackToLaterRule ==
    \A p \in DOMAIN pass :
        \A k \in 1..Len(pass[p].attempts) :
            LET a == pass[p].attempts[k]
                D == config.Destinations
            IN /\ \A k2 \in 1..Len(pass[p].attempts) :
                    pass[p].attempts[k2].name = a.name => k2 = k
               /\ FirstRuleFor(a.name) # 0
               /\ a.dstDir = D[FirstRuleFor(a.name)].Path
               /\ a.err # "" =>
                    \A j \in LaterRulesFor(a.name) :
                        fs[Join(D[j].Path, a.name)]
                            = pass[p].atStart.fs[Join(D[j].Path, a.name)]

\* A pass is over in which the call of moveFile for a file failed while a
\* later rule matches the file and nothing is at that rule's destination.
C15_Witness ==
    /\ pass[1].pc = "done"
    /\ \E k \in 1..Len(pass[1].attempts) :
        LET a == pass[1].attempts[k] IN
            /\ a.err # ""
            /\ \E j \in LaterRulesFor(a.name) :
                ~Exists(Join(config.Destinations[j].Path, a.name))

\* C16: at most one timer is outstanding, and it is the one in the slot; the
\* timer that starts a pass is the one the slot holds when it fires, so a
\* timer that was replaced never fires.
C16_SingleTimerSlot ==
    /\ Cardinality(DOMAIN armed) <= 1
    /\ DOMAIN armed \subseteq {timer}
    /\ \A p \in DOMAIN pass : pass[p].by # 0 => pass[p].by = pass[p].slot

\* A second event was consumed while the timer of the first was running, and
\* the timer of the second has started a pass.
C16_Witness ==
    /\ "less" \in obs.gaps
    /\ \E p \in DOMAIN pass : pass[p].by >= 2

\* C17: every pass was started by a timer firing one full delay after the
\* event that armed it was consumed, no event having been consumed since;
\* and every firing started one pass, no two passes coming from one timer.
C17_PassAfterQuietPeriod ==
    /\ Len(pass) = obs.started
    /\ \A p \in DOMAIN pass :
        /\ pass[p].by \in 1..obs.consumed
        /\ pass[p].quiet = Delay
        /\ pass[p].consumedAt = pass[p].by
        /\ \A q \in DOMAIN pass : pass[q].by = pass[p].by => q = p

\* A timer was replaced before its time was up, and the one that replaced it
\* has started a pass; an event consumed later has armed the next timer.
C17_Witness ==
    /\ \E p \in DOMAIN pass : pass[p].by = 2
    /\ obs.gaps = {"less", "more"}
    /\ DOMAIN armed # {}

\* C18: the step that consumes an item of the watcher's error channel leaves
\* the timer slot, the outstanding timers and the organize passes as they
\* are, and leaves the event goroutine in its select.
C18_ErrorsLeaveTimerAlone ==
    [][obs'.errors # obs.errors =>
            /\ timer' = timer
            /\ armed' = armed
            /\ pass' = pass
            /\ obs'.started = obs.started
            /\ sinceEvent' = sinceEvent
            /\ taskpc' = "select"]_vars

\* An error has been consumed and a timer, part of its delay gone, is still
\* running, the goroutine back in its select.
C18_Witness ==
    /\ obs.errors >= 1
    /\ watch.errors = 0
    /\ taskpc = "select"
    /\ timer \in DOMAIN armed
    /\ armed[timer] \in 1..(Delay - 1)

\* C19: the event goroutine returns only on a closed channel; once the
\* channels are closed it consumes no more items, its only step is to
\* return, and from then on it stays returned, the timer slot is not written
\* and no timer is armed.
C19_TaskEndsOnClose ==
    /\ [](taskpc = "returned" => watch.closed)
    /\ [][(watch.closed \/ taskpc = "returned") =>
            /\ timer' = timer
            /\ DOMAIN armed' \subseteq DOMAIN armed
            /\ obs'.consumed = obs.consumed
            /\ obs'.errors = obs.errors
            /\ taskpc' \in {taskpc, "returned"}
            /\ taskpc = "returned" => taskpc' = "returned"]_vars

\* The goroutine, which had armed a timer before, has returned on the closed
\* channel while the process is still there.
C19_Witness ==
    /\ taskpc = "returned"
    /\ watch.closed
    /\ timer # 0
    /\ mainpc = "closed"

\* C20: nothing holds a due timer back while an organize pass is running:
\* whenever the time of an outstanding timer is up it can fire and start its
\* pass, whatever the passes in flight.
C20_PassesNotSerialised ==
    \A t \in DOMAIN armed :
        (Alive /\ armed[t] = 0 /\ obs.started < MaxPasses)
            => ENABLED TimerFire(t)

\* Two passes over the dump directory are in flight at once: the second was
\* started, by the timer of a later event, while the first was running, and
\* neither has returned.
C20_Witness ==
    /\ Len(pass) >= 2
    /\ pass[2].others = 1
    /\ pass[2].by > pass[1].by
    /\ pass[1].pc \notin {"readdir", "done"}
    /\ pass[2].pc \notin {"readdir", "done"}

\* The calls of moveFile that two different passes made for one file: the
\* same name, and the same file at the source when each call was made.
RacingCalls ==
    {c \in (DOMAIN pass) \X (DOMAIN pass) \X (1..MaxFiles) \X (1..MaxFiles) :
        /\ c[1] < c[2]
        /\ c[3] <= Len(pass[c[1]].attempts)
        /\ c[4] <= Len(pass[c[2]].attempts)
        /\ pass[c[1]].attempts[c[3]].name = pass[c[2]].attempts[c[4]].name
        /\ pass[c[1]].attempts[c[3]].src # 0
        /\ pass[c[1]].attempts[c[3]].src = pass[c[2]].attempts[c[4]].src}

\* The errors moveFile returns when the source is gone: from os.Open, from
\* os.Stat of the source and from os.Remove.
MissingSourceErrors == {"open", "stat", "remove"}

\* C21: when two passes have each called moveFile for the same source path,
\* with the same file there at both calls, one of the two calls has returned
\* nil and the other the already-exists error or an error of a missing
\* source; both never return nil.
C21_RaceOnOneSource ==
    \A c \in RacingCalls :
        LET a == pass[c[1]].attempts[c[3]]
            b == pass[c[2]].attempts[c[4]]
        IN \/ a.err = "" /\ b.err \in {"exists"} \cup MissingSourceErrors
           \/ b.err = "" /\ a.err \in {"exists"} \cup MissingSourceErrors

\* C22: no step replaces or truncates a file that is at a destination path:
\* the path keeps its file and the file loses none of its bytes.
C22_NeverOverwrites ==
    [][\A q \in DestPaths :
            Exists(q) =>
                /\ fs'[q] = fs[q]
                /\ Len(inodes'[fs[q]].content) >= Len(inodes[fs[q]].content)
      ]_vars

\* The errors moveFile returns after copyFile has created the destination:
\* from io.Copy, from os.Stat of the source, from os.Chmod and from os.Remove.
ResidueErrors == {"copy", "stat", "chmod", "remove"}

\* C23: when moveFile returns one of the errors that follow the creation of
\* the destination, the destination file and the source file are both there;
\* and in every later run the file is listed again and its call of moveFile
\* returns the already-exists error.
C23_ResidueIsPermanent ==
    /\ \A p \in DOMAIN pass :
        (pass[p].pc = "tally" /\ pass[p].err \in ResidueErrors)
        => /\ Exists(DstPath(p))
           /\ ~IsDirAt(DstPath(p))
           /\ Exists(SrcPath(p))
    /\ \A i \in 1..Len(runLog) : \A j \in (i + 1)..Len(runLog) :
        \A k \in 1..Len(runLog[i].attempts) :
            runLog[i].attempts[k].err \in ResidueErrors =>
                /\ \E m \in 1..Len(runLog[j].attempts) :
                    runLog[j].attempts[m].name = runLog[i].attempts[k].name
                /\ \A m \in 1..Len(runLog[j].attempts) :
                    runLog[j].attempts[m].name = runLog[i].attempts[k].name
                        => runLog[j].attempts[m].err = "exists"

\* A first run in which io.Copy failed part of the way, and a second run
\* that found the incomplete file at the destination.
C23_Witness ==
    /\ Len(runLog) = 2
    /\ \E k \in 1..Len(runLog[1].attempts) :
        LET a == runLog[1].attempts[k] IN
            /\ a.err = "copy"
            /\ \E m \in 1..Len(runLog[2].attempts) :
                /\ runLog[2].attempts[m].name = a.name
                /\ runLog[2].attempts[m].err = "exists"
            /\ Len(inodes[fs[Join(a.dstDir, a.name)]].content) < Len(a.name)
            /\ Exists(Join(DumpDir, a.name))

\* C24: every file a pass has listed in the dump directory is, with all its
\* bytes, at its path in the dump directory or at the destination of the
\* first rule that matches it.
C24_NoDataLoss ==
    \A p \in DOMAIN pass :
        \A i \in 1..Len(pass[p].files) :
            LET n == pass[p].files[i].name
                r == FirstRuleFor(n)
            IN ~pass[p].files[i].isDir =>
                \/ HoldsDumpFile(Join(config.DumpDirectory, n), n)
                \/ /\ r # 0
                   /\ HoldsDumpFile(Join(config.Destinations[r].Path, n), n)

\* The watching program with its scheduling: time goes by, a timer whose time
\* is up fires, and the event goroutine and the passes get to run.  Nothing
\* is assumed of main, of the signal or of the other processes.
Fairness ==
    /\ WF_vars(Tick)
    /\ WF_vars(TaskEvent)
    /\ WF_vars(TaskError)
    /\ WF_vars(\E t \in DOMAIN armed : TimerFire(t))
    /\ WF_vars(\E p \in DOMAIN pass : Alive /\ PassStep(p))

\* It is checked where every operation of the operating system succeeds.
InitLive == Init /\ env = [op \in Ops |-> "ok"]

SpecLive == InitLive /\ [][Next]_vars /\ Fairness

\* The last event consumed has its pass, which has listed the dump
\* directory, and nothing is pending: no event, no timer.
Settled ==
    /\ watch.events = 0
    /\ DOMAIN armed = {}
    /\ obs.consumed > 0 =>
        \E p \in DOMAIN pass :
            pass[p].consumedAt = obs.consumed /\ pass[p].pc # "readdir"

\* C25: while main waits for the signal, and short of the bound on passes,
\* the program comes to a state where the last consumed event has been
\* followed by a pass and no timer is outstanding, and stays there.
C25_EventualOrganize ==
    <>[](mainpc # "waiting" \/ obs.started = MaxPasses \/ Settled)

\* All is quiet after a pass that was started for the last of two events.
C25_Witness ==
    /\ mainpc = "waiting"
    /\ obs.consumed = 2
    /\ obs.started < MaxPasses
    /\ Settled

\* -------------------------------------------------------------- SpecSettle
\* The watching program started on a dump directory that holds two files for
\* the same destination, every operation succeeding, no signal arriving, and
\* with no other doing of other processes than touching the directory.
MaxSettlePasses == 3

MaxSettleEvents == 1

SettleNames == {<<"a", "a">>, <<"a", "b">>}

InitSettle ==
    /\ matchArgs = <<>>
    /\ matchResult = "unused"
    /\ config = [DumpDirectory |-> DumpDir, Destinations |-> WatchRules]
    /\ LET present == {Join(DumpDir, n) : n \in SettleNames} IN
        /\ fs = [q \in Paths |-> IF q \in present THEN PathId(q) ELSE 0]
        /\ inodes = [i \in {PathId(q) : q \in present} |->
                        InitialInode(PathSeq[i], "0600")]
    /\ dirs = {DumpDir}
    /\ env = [op \in Ops |-> "ok"]
    /\ pass = <<>>
    /\ runs = 0
    /\ runLog = <<>>
    /\ watch = NoWatch
    /\ mainpc = "start"
    /\ taskpc = "none"
    /\ timer = 0
    /\ armed = <<>>
    /\ sinceEvent = 0
    /\ obs = NoObs

NextSettle ==
    \/ MainLoadConfig
    \/ MainStatDump
    \/ MainNewWatcher
    \/ MainGo
    \/ MainWatcherAdd
    \/ TaskEvent
    \/ \E t \in DOMAIN armed : StartPass(t, MaxSettlePasses)
    \/ Tick
    \/ \E p \in DOMAIN pass : Alive /\ PassStep(p)
    \/ Touch(MaxSettleEvents)

SpecSettle == InitSettle /\ [][NextSettle]_vars

\* The calls of moveFile that relocated a file, over all passes.
Relocations ==
    {c \in (DOMAIN pass) \X (1..MaxFiles) :
        /\ c[2] <= Len(pass[c[1]].attempts)
        /\ pass[c[1]].attempts[c[2]].err = ""}

\* The passes that relocated at least one file.
MovingPasses == {c[1] : c \in Relocations}

\* C26, as the code has it: the events on the dump directory are those of
\* other processes and one for every file a pass relocated, a pass that
\* relocates nothing adding none; a pass needs an event of its own, so the
\* passes number at most the events of other processes plus the files
\* relocated.
C26_SelfInducedEventsSettle ==
    /\ obs.consumed + watch.events = obs.external + Cardinality(Relocations)
    /\ obs.started <= obs.consumed
    /\ obs.started <= obs.external + Cardinality(Relocations)

\* One event of another process, one pass that relocated both files, more
\* than the delay apart, and a follow-up pass for each; all is quiet.
C26_Witness ==
    /\ obs.external = 1
    /\ Cardinality(Relocations) = 2
    /\ Cardinality(MovingPasses) = 1
    /\ obs.started = 3
    /\ \A p \in DOMAIN pass : pass[p].pc = "done"
    /\ watch.events = 0
    /\ DOMAIN armed = {}

\* C26, as stated: after the one event of another process the passes number
\* at most the passes that relocated a file, plus one.
C26_BoundedByMovingPasses ==
    obs.external <= 1 => obs.started <= Cardinality(MovingPasses) + 1

\* C27: the passes started number at most the events consumed, and while no
\* event has been consumed no pass has been started and nothing has been
\* put in a destination, whatever was in the dump directory at startup.
C27_NoPassWithoutEvent ==
    /\ obs.started <= obs.consumed
    /\ Len(pass) = obs.started
    /\ obs.consumed = 0 =>
        /\ pass = <<>>
        /\ \A q \in DestPaths : ~Exists(q)

\* The file that was in the dump directory at startup has been relocated by
\* a pass, after an event was consumed.
C27_Witness ==
    /\ obs.consumed >= 1
    /\ \E n \in WatchNames :
        /\ fs[Join("d1", n)] \in 1..Cardinality(Paths)
        /\ HoldsDumpFile(Join("d1", n), n)


\* ---------------------------------------------------------------------
\* Two passes racing for one file of the dump directory while other
\* processes go on using the directory: the file is there from the start,
\* nothing fails, the program is not shut down.
MaxRacePasses == 2

MaxRaceEvents == 3

InitRace ==
    /\ matchArgs = <<>>
    /\ matchResult = "unused"
    /\ config = [DumpDirectory |-> DumpDir, Destinations |-> WatchRules]
    /\ LET present == {Join(DumpDir, n) : n \in WatchNames} IN
        /\ fs = [q \in Paths |-> IF q \in present THEN PathId(q) ELSE 0]
        /\ inodes = [i \in {PathId(q) : q \in present} |->
                        InitialInode(PathSeq[i], "0600")]
    /\ dirs = {DumpDir}
    /\ env = [op \in Ops |-> "ok"]
    /\ pass = <<>>
    /\ runs = 0
    /\ runLog = <<>>
    /\ watch = NoWatch
    /\ mainpc = "start"
    /\ taskpc = "none"
    /\ timer = 0
    /\ armed = <<>>
    /\ sinceEvent = 0
    /\ obs = NoObs

NextRace ==
    \/ MainLoadConfig
    \/ MainStatDump
    \/ MainNewWatcher
    \/ MainGo
    \/ MainWatcherAdd
    \/ TaskEvent
    \/ \E t \in DOMAIN armed : StartPass(t, MaxRacePasses)
    \/ Tick
    \/ \E p \in DOMAIN pass : Alive /\ PassStep(p)
    \/ Touch(MaxRaceEvents)
    \/ \E n \in WatchNames : Drop(n, MaxRaceEvents)

SpecRace == InitRace /\ [][NextRace]_vars

====
